---- MODULE Spec2Model ----
(***************************************************************************)
(* Model of the Mastermind game of mastermind.ino: the secret generator    *)
(* (randomNumber, shuffleSort, generateSecret), the guess evaluation       *)
(* (checkInput, isSolved) and the key-event state machine of loop().       *)
(* Characters are modelled by their ASCII codes, arrays by functions over  *)
(* the C index range 0..n-1.  The LCD and serial calls do not touch        *)
(* gameData and are left out; the two LED pins carry the win/lose outcome.  *)
(***************************************************************************)
EXTENDS Integers, FiniteSets, Sequences, TLC

(***************************************************************************)
(* Sizes.  The source fixes SECRET_LENGTH = 4, TRIES_MAX = 12 and          *)
(* DIGIT_COUNT = 10; the model keeps the three parametric and checks them  *)
(* at smaller values, with SECRET_LENGTH < DIGIT_COUNT as in the source.   *)
(***************************************************************************)
SECRET_LENGTH == 2

TRIES_MAX == 3

DIGIT_COUNT == 3

(***************************************************************************)
(* Character constants (ASCII codes).                                      *)
(***************************************************************************)
NO_KEY == 0

CHAR_0 == 48

CHAR_9 == 57

BUTTON_NEWROUND == 42

BUTTON_NEWGAME == 35

KEY_A == 65

HINT_WRONG == 45

HINT_MISPLACED == 63

HINT_CORRECT == 33

GS_INPUT == "GS_INPUT"

GS_ROUNDOVER == "GS_ROUNDOVER"

GS_GAMEOVER == "GS_GAMEOVER"

\* Levels of the two LED output pins.
LOW == "LOW"

HIGH == "HIGH"

\* Index range of the secret, input and hints buffers.
Idx == 0 .. (SECRET_LENGTH - 1)

\* The digit characters of the alphabet: '0' .. '0' + DIGIT_COUNT - 1.
DigitChars == CHAR_0 .. (CHAR_0 + DIGIT_COUNT - 1)

(***************************************************************************)
(* State: the fields of gameData, the digit pool and the two LED pins.     *)
(* History variables record the run: event is the key event handled last,  *)
(* submitted the number of guesses completed since the last new game,      *)
(* counted from the key events, typed the digits accepted since the last   *)
(* resetInput(), in key-press order.  call is the activation of            *)
(* shuffleSort followed step by step in SpecShuffle; it is idle elsewhere. *)
(* digitEvents counts the digit keys since the last new game in SpecPlay;  *)
(* it is 0 elsewhere.                                                      *)
(***************************************************************************)
VARIABLES state, secret, input, hints, inputCount, tries, randomDigitPool,
          ledWin, ledLose, event, submitted, call, typed, digitEvents

gameVars == <<state, secret, input, hints, inputCount, tries, randomDigitPool,
              ledWin, ledLose>>

vars == <<gameVars, event, submitted, call, typed, digitEvents>>

\* No shuffleSort call is being followed.
NoCall == [build |-> "ino", pc |-> "idle", n |-> 0, i |-> 0, z |-> 0, orig |-> <<>>]

(***************************************************************************)
(* Secret generator.                                                       *)
(***************************************************************************)

\* randomNumber(n): random(n) if n > 0, else 0.  rnd is the value random(n)
\* returns, a number in [0, n).
randomNumber(n, rnd) == IF n > 0 THEN rnd ELSE 0

\* The possible results of the random(i) calls of one shuffleSort(arr, n):
\* one draw in [0, i) for each loop index i > 0.
DrawSeqs(n) == {r \in [1 .. (n - 1) -> 0 .. (n - 1)] : \A i \in 1 .. (n - 1) : r[i] < i}

\* The loop body of shuffleSort without the write of tmp to arr[z].
ShuffleStepNoWriteBack(arr, i, z) == [arr EXCEPT ![i] = arr[z]]

\* One iteration of the loop body of shuffleSort at index i.
ShuffleStep(arr, i, z) == [arr EXCEPT ![i] = arr[z], ![z] = arr[i]]

\* The iterations of shuffleSort for loop indices i, i-1, ..., 0.
RECURSIVE ShuffleFrom(_, _, _)
ShuffleFrom(arr, i, r) ==
    IF i < 0 THEN arr
    ELSE LET z == randomNumber(i, IF i > 0 THEN r[i] ELSE 0) + 1
         IN  ShuffleFrom(ShuffleStep(arr, i, z), i - 1, r)

\* The iterations for loop indices i, i-1, ..., 1: the loop without its last
\* iteration.
RECURSIVE ShuffleDownToOne(_, _, _)
ShuffleDownToOne(arr, i, r) ==
    IF i < 1 THEN arr
    ELSE ShuffleDownToOne(ShuffleStep(arr, i, randomNumber(i, r[i]) + 1), i - 1, r)

\* shuffleSort with the loop condition --i > 0: no iteration with i = 0.
shuffleSortDownToOne(arr, n, r) == ShuffleDownToOne(arr, n - 1, r)

\* shuffleSort(arr, n): for(i = n; i-- > 0;) runs the body for i = n-1 .. 0.
shuffleSort(arr, n, r) == ShuffleFrom(arr, n - 1, r)

\* The pool as statically initialised: '0', '1', ...
InitialPool == [i \in 0 .. (DIGIT_COUNT - 1) |-> CHAR_0 + i]

\* generateSecret(true): SECRET_LENGTH independent draws '0' + random(DIGIT_COUNT).
DuplicateSecrets == [Idx -> {CHAR_0 + d : d \in 0 .. (DIGIT_COUNT - 1)}]

\* generateSecret(false): the first SECRET_LENGTH characters of the pool.
SecretOfPool(pool) == [i \in Idx |-> pool[i]]

\* generateSecret(allowDuplicates) run on pool p: the possible results
\* <<secret, pool>>.
generateSecret(allowDuplicates, p) ==
    IF allowDuplicates
    THEN {<<s, p>> : s \in DuplicateSecrets}
    ELSE {<<SecretOfPool(shuffleSort(p, DIGIT_COUNT, r)), shuffleSort(p, DIGIT_COUNT, r)>> :
             r \in DrawSeqs(DIGIT_COUNT)}

(***************************************************************************)
(* Guess evaluation.                                                       *)
(***************************************************************************)

\* The inner loop of checkInput for guess position i, from secret position j
\* on, with h the current value of hints[i].
RECURSIVE InnerScan(_, _, _, _, _)
InnerScan(inp, sec, i, j, h) ==
    IF j >= SECRET_LENGTH THEN h
    ELSE IF inp[i] = sec[j]
         THEN IF i = j
              THEN HINT_CORRECT
              ELSE InnerScan(inp, sec, i, j + 1, HINT_MISPLACED)
         ELSE InnerScan(inp, sec, i, j + 1, h)

\* checkInput() with the inner loop left at the first match of the digit,
\* whatever its position.
RECURSIVE InnerScanBreak(_, _, _, _)
InnerScanBreak(inp, sec, i, j) ==
    IF j >= SECRET_LENGTH THEN HINT_WRONG
    ELSE IF inp[i] = sec[j]
         THEN IF i = j THEN HINT_CORRECT ELSE HINT_MISPLACED
         ELSE InnerScanBreak(inp, sec, i, j + 1)

checkInputBreak(inp, sec) == [i \in Idx |-> InnerScanBreak(inp, sec, i, 0)]

\* checkInput(): hints are reset to HINT_WRONG, then each position is scanned.
checkInput(inp, sec) == [i \in Idx |-> InnerScan(inp, sec, i, 0, HINT_WRONG)]

\* isSolved(): the loop returns false at the first hint that is not HINT_CORRECT.
RECURSIVE SolvedFrom(_, _)
SolvedFrom(h, i) ==
    IF i >= SECRET_LENGTH THEN TRUE
    ELSE IF h[i] # HINT_CORRECT THEN FALSE
         ELSE SolvedFrom(h, i + 1)

\* isSolved() with the loop started at index 1.
isSolvedSkipFirst(h) == SolvedFrom(h, 1)

isSolved(h) == SolvedFrom(h, 0)

(***************************************************************************)
(* Round and game reset.                                                   *)
(***************************************************************************)

\* resetInput() without the reset of inputCount.
resetInputKeepCount ==
    /\ UNCHANGED inputCount
    /\ state' = GS_INPUT

\* resetInput(): only inputCount and state are assigned.
resetInput ==
    /\ inputCount' = 0
    /\ state' = GS_INPUT

\* newGame() without the reset of the try count.
newGameKeepTries ==
    /\ \E g \in generateSecret(FALSE, randomDigitPool) :
          /\ secret' = g[1]
          /\ randomDigitPool' = g[2]
    /\ UNCHANGED tries
    /\ ledWin' = LOW
    /\ ledLose' = LOW
    /\ resetInput
    /\ UNCHANGED <<input, hints>>

\* newGame(): generateSecret(false), tries = 0, both LEDs off, resetInput().
newGame ==
    /\ \E g \in generateSecret(FALSE, randomDigitPool) :
          /\ secret' = g[1]
          /\ randomDigitPool' = g[2]
    /\ tries' = 0
    /\ ledWin' = LOW
    /\ ledLose' = LOW
    /\ resetInput
    /\ UNCHANGED <<input, hints>>

(***************************************************************************)
(* loop(): the handling of one key.                                        *)
(***************************************************************************)

\* The first branch of loop() without the test of the state.
acceptsDigitAnyState(key) == key >= CHAR_0 /\ key <= CHAR_9

\* The first branch of loop() without the upper limit '9' of the digit test.
acceptsDigitNoUpperLimit(key) == state = GS_INPUT /\ key >= CHAR_0

\* The condition of the first branch of loop().
acceptsDigit(key) == state = GS_INPUT /\ (key >= CHAR_0 /\ key <= CHAR_9)

\* The branches without the test of the try limit.
OutcomeNoLoss(h, t) ==
    IF isSolved(h) THEN "WON" ELSE "CONTINUE"

\* The branches with the try limit compared by > instead of >=.
OutcomeLateLoss(h, t) ==
    IF isSolved(h) THEN "WON"
    ELSE IF t > TRIES_MAX THEN "LOST"
         ELSE "CONTINUE"

\* The branches with the try limit tested before isSolved().
OutcomeLossFirst(h, t) ==
    IF t >= TRIES_MAX THEN "LOST"
    ELSE IF isSolved(h) THEN "WON"
         ELSE "CONTINUE"

\* The branch loop() takes after an evaluation with hints h and try count t.
Outcome(h, t) ==
    IF isSolved(h) THEN "WON"
    ELSE IF t >= TRIES_MAX THEN "LOST"
         ELSE "CONTINUE"

\* The evaluation without tries++.
evaluateGuessNoCount(in1) ==
    /\ tries' = tries
    /\ hints' = checkInput(in1, secret)
    /\ LET o == Outcome(hints', tries')
       IN  /\ state' = IF o = "CONTINUE" THEN GS_ROUNDOVER ELSE GS_GAMEOVER
           /\ ledWin' = IF o = "WON" THEN HIGH ELSE ledWin
           /\ ledLose' = IF o = "LOST" THEN HIGH ELSE ledLose

\* The evaluation with the try limit compared before tries++ takes effect.
evaluateGuessStaleTries(in1) ==
    /\ tries' = tries + 1
    /\ hints' = checkInput(in1, secret)
    /\ LET o == Outcome(hints', tries)
       IN  /\ state' = IF o = "CONTINUE" THEN GS_ROUNDOVER ELSE GS_GAMEOVER
           /\ ledWin' = IF o = "WON" THEN HIGH ELSE ledWin
           /\ ledLose' = IF o = "LOST" THEN HIGH ELSE ledLose

\* The evaluation of a completed guess in1: tries++, checkInput(), then the
\* win, lose or next-try branch.
evaluateGuess(in1) ==
    /\ tries' = tries + 1
    /\ hints' = checkInput(in1, secret)
    /\ LET o == Outcome(hints', tries')
       IN  /\ state' = IF o = "CONTINUE" THEN GS_ROUNDOVER ELSE GS_GAMEOVER
           /\ ledWin' = IF o = "WON" THEN HIGH ELSE ledWin
           /\ ledLose' = IF o = "LOST" THEN HIGH ELSE ledLose

\* The digit branch with the guess evaluated only once inputCount exceeds
\* SECRET_LENGTH.
digitBranchLate(key) ==
    LET in1 == [input EXCEPT ![inputCount] = key]
        cnt == inputCount + 1
    IN  /\ input' = in1
        /\ inputCount' = cnt
        /\ IF cnt > SECRET_LENGTH
           THEN evaluateGuess(in1)
           ELSE UNCHANGED <<tries, hints, state, ledWin, ledLose>>
        /\ UNCHANGED <<secret, randomDigitPool>>

\* The digit branch with tries++ run for every digit.
digitBranchCountsEveryDigit(key) ==
    LET in1 == [input EXCEPT ![inputCount] = key]
        cnt == inputCount + 1
    IN  /\ input' = in1
        /\ inputCount' = cnt
        /\ IF cnt >= SECRET_LENGTH
           THEN evaluateGuess(in1)
           ELSE tries' = tries + 1 /\ UNCHANGED <<hints, state, ledWin, ledLose>>
        /\ UNCHANGED <<secret, randomDigitPool>>

\* The digit branch with the digit stored after inputCount++.
digitBranchWriteAfterIncrement(key) ==
    LET cnt == inputCount + 1
        in1 == [input EXCEPT ![cnt] = key]
    IN  /\ input' = in1
        /\ inputCount' = cnt
        /\ IF cnt >= SECRET_LENGTH
           THEN evaluateGuess(in1)
           ELSE UNCHANGED <<tries, hints, state, ledWin, ledLose>>
        /\ UNCHANGED <<secret, randomDigitPool>>

\* The branch of loop() taken for a digit in GS_INPUT.
digitBranch(key) ==
    LET in1 == [input EXCEPT ![inputCount] = key]
        cnt == inputCount + 1
    IN  /\ input' = in1
        /\ inputCount' = cnt
        /\ IF cnt >= SECRET_LENGTH
           THEN evaluateGuess(in1)
           ELSE UNCHANGED <<tries, hints, state, ledWin, ledLose>>
        /\ UNCHANGED <<secret, randomDigitPool>>

\* The new-round branch without the test of the state: always a new game.
newRoundBranchAlwaysNewGame == newGame

\* The new-round branch without the new game after GS_GAMEOVER.
newRoundBranchNoNewGame ==
    /\ resetInput
    /\ UNCHANGED <<secret, input, hints, tries, randomDigitPool, ledWin, ledLose>>

\* The branch of loop() taken for the new-round key.
newRoundBranch ==
    IF state = GS_INPUT \/ state = GS_ROUNDOVER
    THEN /\ resetInput
         /\ UNCHANGED <<secret, input, hints, tries, randomDigitPool, ledWin, ledLose>>
    ELSE IF state = GS_GAMEOVER
         THEN newGame
         ELSE UNCHANGED gameVars

loop(key) ==
    IF key = NO_KEY THEN UNCHANGED gameVars
    ELSE IF acceptsDigit(key) THEN digitBranch(key)
    ELSE IF key = BUTTON_NEWROUND THEN newRoundBranch
    ELSE IF key = BUTTON_NEWGAME THEN newGame
    ELSE UNCHANGED gameVars

\* gameData is a zero-initialised global; setup() then calls newGame(), which
\* runs generateSecret(allowDuplicates).
setup(allowDuplicates) ==
    /\ input = [i \in Idx |-> 0]
    /\ hints = [i \in Idx |-> 0]
    /\ inputCount = 0
    /\ tries = 0
    /\ state = GS_INPUT
    /\ ledWin = LOW
    /\ ledLose = LOW
    /\ \E g \in generateSecret(allowDuplicates, InitialPool) :
          /\ secret = g[1]
          /\ randomDigitPool = g[2]
    /\ event = "setup"
    /\ submitted = 0
    /\ call = NoCall
    /\ typed = <<>>
    /\ digitEvents = 0

Init == setup(FALSE)

(***************************************************************************)
(* The key events.  Each is loop() run on one class of keys.               *)
(***************************************************************************)

\* A poll that finds no key.
NoKey ==
    /\ loop(NO_KEY)
    /\ event' = "NoKey"
    /\ UNCHANGED submitted
    /\ UNCHANGED call
    /\ UNCHANGED <<typed, digitEvents>>

\* A digit key while the game awaits input.
DigitKey ==
    /\ state = GS_INPUT
    /\ \E key \in DigitChars :
          /\ loop(key)
          /\ typed' = Append(typed, key)
    /\ event' = "DigitKey"
    /\ submitted' = IF inputCount + 1 = SECRET_LENGTH THEN submitted + 1 ELSE submitted
    /\ UNCHANGED call
    /\ UNCHANGED digitEvents

\* A digit key after the round or the game is over.
DigitKeyLate ==
    /\ state # GS_INPUT
    /\ \E key \in DigitChars : loop(key)
    /\ event' = "DigitKeyLate"
    /\ UNCHANGED submitted
    /\ UNCHANGED call
    /\ UNCHANGED <<typed, digitEvents>>

\* The new-round key during a game.
NewRoundKey ==
    /\ state # GS_GAMEOVER
    /\ loop(BUTTON_NEWROUND)
    /\ event' = "NewRoundKey"
    /\ UNCHANGED submitted
    /\ UNCHANGED call
    /\ typed' = <<>>
    /\ UNCHANGED digitEvents

\* The new-round key after the game is over.
NewRoundKeyGameOver ==
    /\ state = GS_GAMEOVER
    /\ loop(BUTTON_NEWROUND)
    /\ event' = "NewRoundKeyGameOver"
    /\ submitted' = 0
    /\ UNCHANGED call
    /\ typed' = <<>>
    /\ UNCHANGED digitEvents

NewGameKey ==
    /\ loop(BUTTON_NEWGAME)
    /\ event' = "NewGameKey"
    /\ submitted' = 0
    /\ UNCHANGED call
    /\ typed' = <<>>
    /\ UNCHANGED digitEvents

\* A key of the unused last keypad column.
OtherKey ==
    /\ loop(KEY_A)
    /\ event' = "OtherKey"
    /\ UNCHANGED submitted
    /\ UNCHANGED call
    /\ UNCHANGED <<typed, digitEvents>>

Next ==
    \/ NoKey
    \/ DigitKey
    \/ DigitKeyLate
    \/ NewRoundKey
    \/ NewRoundKeyGameOver
    \/ NewGameKey
    \/ OtherKey

Spec == Init /\ [][Next]_vars

(***************************************************************************)
(* The game built with duplicates allowed (generateSecret(true)), followed *)
(* for one game: every secret over the alphabet, every sequence of rounds. *)
(***************************************************************************)
InitDup == setup(TRUE)

NextDup ==
    \/ NoKey
    \/ DigitKey
    \/ DigitKeyLate
    \/ NewRoundKey
    \/ OtherKey

SpecDup == InitDup /\ [][NextDup]_vars

(***************************************************************************)
(* checkInput() as a function of the guess and the secret, for buffers of  *)
(* ScoreLength characters: every guess against every secret over the       *)
(* alphabet.                                                               *)
(***************************************************************************)
ScoreLength == 3

\* The inner loop of checkInput for guess position i, with n for SECRET_LENGTH.
RECURSIVE InnerScanOf(_, _, _, _, _, _)
InnerScanOf(inp, sec, n, i, j, h) ==
    IF j >= n THEN h
    ELSE IF inp[i] = sec[j]
         THEN IF i = j
              THEN HINT_CORRECT
              ELSE InnerScanOf(inp, sec, n, i, j + 1, HINT_MISPLACED)
         ELSE InnerScanOf(inp, sec, n, i, j + 1, h)

\* The inner loop that gives no MISPLACED for a secret position the guess
\* already holds in place.
RECURSIVE InnerScanCredited(_, _, _, _, _, _)
InnerScanCredited(inp, sec, n, i, j, h) ==
    IF j >= n THEN h
    ELSE IF inp[i] = sec[j]
         THEN IF i = j
              THEN HINT_CORRECT
              ELSE InnerScanCredited(inp, sec, n, i, j + 1,
                                     IF inp[j] = sec[j] THEN h ELSE HINT_MISPLACED)
         ELSE InnerScanCredited(inp, sec, n, i, j + 1, h)

checkInputOfCredited(inp, sec, n) ==
    [i \in 0 .. (n - 1) |-> InnerScanCredited(inp, sec, n, i, 0, HINT_WRONG)]

\* checkInput() with n for SECRET_LENGTH.
checkInputOf(inp, sec, n) ==
    [i \in 0 .. (n - 1) |-> InnerScanOf(inp, sec, n, i, 0, HINT_WRONG)]

\* A secret and a completed guess, not yet evaluated.
InitScore ==
    /\ secret \in [0 .. (ScoreLength - 1) -> DigitChars]
    /\ input \in [0 .. (ScoreLength - 1) -> DigitChars]
    /\ hints = [i \in 0 .. (ScoreLength - 1) |-> 0]
    /\ inputCount = ScoreLength
    /\ tries = 0
    /\ state = GS_INPUT
    /\ ledWin = LOW
    /\ ledLose = LOW
    /\ randomDigitPool = InitialPool
    /\ event = "setup"
    /\ submitted = 0
    /\ call = NoCall
    /\ typed = [k \in 1 .. ScoreLength |-> input[k - 1]]
    /\ digitEvents = 0

\* The call of checkInput().
CheckInputCall ==
    /\ event = "setup"
    /\ hints' = checkInputOf(input, secret, ScoreLength)
    /\ event' = "checkInput"
    /\ UNCHANGED <<state, secret, input, inputCount, tries, randomDigitPool,
                   ledWin, ledLose, submitted, call>>
    /\ UNCHANGED <<typed, digitEvents>>

NextScore == CheckInputCall

SpecScore == InitScore /\ [][NextScore]_vars

(***************************************************************************)
(* setup() over the configurations: the sizes SECRET_LENGTH and            *)
(* DIGIT_COUNT are the sizes of the buffers, secret and randomDigitPool.   *)
(* The sketch has no test of one size against the other.                   *)
(***************************************************************************)
MaxConfigLength == 5
MaxConfigCount == 4

\* The configurations: a secret length and an alphabet size.
ConfigLengths == 1 .. MaxConfigLength
ConfigCounts == 2 .. MaxConfigCount

\* The bytes a read past the end of randomDigitPool can return.
AdjacentBytes == {NO_KEY, CHAR_0, CHAR_9, 255}

\* The pool of a configuration with d digits, as statically initialised.
InitialPoolOf(d) == [i \in 0 .. (d - 1) |-> CHAR_0 + i]

\* The copy loop of generateSecret(false) for a secret of len characters:
\* secret[i] = randomDigitPool[i]; positions past the pool read adjacent memory.
SecretsOfPool(pool, len, d) ==
    {s \in [0 .. (len - 1) -> DigitChars \cup AdjacentBytes \cup {pool[i] : i \in DOMAIN pool}] :
        \A i \in 0 .. (len - 1) :
            IF i < d THEN s[i] = pool[i] ELSE s[i] \in AdjacentBytes}

\* The program image before setup(): zero-initialised gameData, the pool.
InitConfig ==
    /\ \E len \in ConfigLengths :
          /\ secret = [i \in 0 .. (len - 1) |-> 0]
          /\ input = [i \in 0 .. (len - 1) |-> 0]
          /\ hints = [i \in 0 .. (len - 1) |-> 0]
    /\ \E d \in ConfigCounts : randomDigitPool = InitialPoolOf(d)
    /\ inputCount = 0
    /\ tries = 0
    /\ state = GS_INPUT
    /\ ledWin = LOW
    /\ ledLose = LOW
    /\ event = "boot"
    /\ submitted = 0
    /\ call = NoCall
    /\ typed = <<>>
    /\ digitEvents = 0

\* setup() returns: newGame() has shuffled the pool and copied the secret.
SetupConfig ==
    /\ event = "boot"
    /\ LET len == Cardinality(DOMAIN secret)
           d == Cardinality(DOMAIN randomDigitPool)
       IN  \E r \in DrawSeqs(d) :
              /\ randomDigitPool' = shuffleSort(randomDigitPool, d, r)
              /\ secret' \in SecretsOfPool(randomDigitPool', len, d)
    /\ tries' = 0
    /\ ledWin' = LOW
    /\ ledLose' = LOW
    /\ resetInput
    /\ event' = "setup"
    /\ UNCHANGED <<input, hints, submitted, call>>
    /\ UNCHANGED <<typed, digitEvents>>

\* setup() does not return: the read past the end of the pool faults.
SetupFault ==
    /\ event = "boot"
    /\ Cardinality(DOMAIN secret) > Cardinality(DOMAIN randomDigitPool)
    /\ \E r \in DrawSeqs(Cardinality(DOMAIN randomDigitPool)) :
          randomDigitPool' = shuffleSort(randomDigitPool, Cardinality(DOMAIN randomDigitPool), r)
    /\ event' = "fault"
    /\ UNCHANGED <<state, secret, input, hints, inputCount, tries,
                   ledWin, ledLose, submitted, call>>
    /\ UNCHANGED <<typed, digitEvents>>

NextConfig ==
    \/ SetupConfig
    \/ SetupFault

SpecConfig == InitConfig /\ [][NextConfig]_vars

(***************************************************************************)
(* One call shuffleSort(arr, n), statement by statement, in the two builds *)
(* of the function: the sketch ("ino", draws through randomNumber) and the *)
(* unit-test build ("test", draws through rand() % n).  The array is       *)
(* randomDigitPool; call is the activation record.                         *)
(***************************************************************************)
MaxShuffleLen == 3

Builds == {"ino", "test"}

\* The arrays of n pairwise distinct characters '0' .. '0' + n - 1.
DistinctArrays(n) ==
    {a \in [0 .. (n - 1) -> CHAR_0 .. (CHAR_0 + n - 1)] :
        \A i, j \in 0 .. (n - 1) : i # j => a[i] # a[j]}

\* Entry of shuffleSort(arr, n): i = n, before the first loop test.
InitShuffle ==
    /\ \E b \in Builds, n \in 0 .. MaxShuffleLen :
          /\ randomDigitPool \in DistinctArrays(n)
          /\ call = [build |-> b, pc |-> "test", n |-> n, i |-> n, z |-> 0,
                     orig |-> randomDigitPool]
    /\ secret = [i \in Idx |-> 0]
    /\ input = [i \in Idx |-> 0]
    /\ hints = [i \in Idx |-> 0]
    /\ inputCount = 0
    /\ tries = 0
    /\ state = GS_INPUT
    /\ ledWin = LOW
    /\ ledLose = LOW
    /\ event = "shuffleSort"
    /\ submitted = 0
    /\ typed = <<>>
    /\ digitEvents = 0

\* The bounds the draw statement of activation c hands to random():
\* randomNumber(i) calls random(i) only for i > 0; the test build calls
\* random(i), that is rand() % i, for every i.
RandomRequests(c) ==
    IF c.build = "ino"
    THEN IF c.i > 0 THEN {c.i} ELSE {}
    ELSE {c.i}

\* i-- > 0 holds: the body runs with i decremented.
ShuffleLoopTest ==
    /\ call.pc = "test"
    /\ call.i > 0
    /\ call' = [call EXCEPT !.i = call.i - 1, !.pc = "draw"]
    /\ UNCHANGED <<gameVars, event, submitted>>
    /\ UNCHANGED <<typed, digitEvents>>

\* i-- > 0 fails: the function returns.
ShuffleReturn ==
    /\ call.pc = "test"
    /\ call.i = 0
    /\ call' = [call EXCEPT !.pc = "done"]
    /\ UNCHANGED <<gameVars, event, submitted>>
    /\ UNCHANGED <<typed, digitEvents>>

\* z = randomNumber(i) + 1 in the sketch; z = rand() % i + 1 for i > 0 in
\* the test build.
ShuffleDraw ==
    /\ call.pc = "draw"
    /\ call.build = "ino" \/ call.i > 0
    /\ \E rnd \in 0 .. (IF call.i > 0 THEN call.i - 1 ELSE 0) :
          call' = [call EXCEPT !.z = randomNumber(call.i, rnd) + 1, !.pc = "swap"]
    /\ UNCHANGED <<gameVars, event, submitted>>
    /\ UNCHANGED <<typed, digitEvents>>

\* rand() % 0 in the test build, where the division yields some value.
ShuffleDrawModuloZero ==
    /\ call.pc = "draw"
    /\ call.build = "test"
    /\ call.i = 0
    /\ \E rnd \in 0 .. call.n :
          call' = [call EXCEPT !.z = rnd + 1, !.pc = "swap"]
    /\ UNCHANGED <<gameVars, event, submitted>>
    /\ UNCHANGED <<typed, digitEvents>>

\* rand() % 0 in the test build, where the division traps.
ShuffleDrawTrap ==
    /\ call.pc = "draw"
    /\ call.build = "test"
    /\ call.i = 0
    /\ call' = [call EXCEPT !.pc = "crashed"]
    /\ UNCHANGED <<gameVars, event, submitted>>
    /\ UNCHANGED <<typed, digitEvents>>

\* tmp = arr[i]; arr[i] = arr[z]; arr[z] = tmp; with z inside the array.
ShuffleSwap ==
    /\ call.pc = "swap"
    /\ call.z < call.n
    /\ randomDigitPool' = ShuffleStep(randomDigitPool, call.i, call.z)
    /\ call' = [call EXCEPT !.pc = "test"]
    /\ UNCHANGED <<state, secret, input, hints, inputCount, tries,
                   ledWin, ledLose, event, submitted>>
    /\ UNCHANGED <<typed, digitEvents>>

\* The same statements with z past the end: arr[i] receives the byte found
\* there and tmp is written outside the array.
ShuffleSwapOutOfBounds ==
    /\ call.pc = "swap"
    /\ call.z >= call.n
    /\ \E b \in AdjacentBytes :
          randomDigitPool' = [randomDigitPool EXCEPT ![call.i] = b]
    /\ call' = [call EXCEPT !.pc = "test"]
    /\ UNCHANGED <<state, secret, input, hints, inputCount, tries,
                   ledWin, ledLose, event, submitted>>
    /\ UNCHANGED <<typed, digitEvents>>

\* The same statements with z past the end, where the access faults.
ShuffleSwapFault ==
    /\ call.pc = "swap"
    /\ call.z >= call.n
    /\ call' = [call EXCEPT !.pc = "crashed"]
    /\ UNCHANGED <<gameVars, event, submitted>>
    /\ UNCHANGED <<typed, digitEvents>>

NextShuffle ==
    \/ ShuffleLoopTest
    \/ ShuffleReturn
    \/ ShuffleDraw
    \/ ShuffleDrawModuloZero
    \/ ShuffleDrawTrap
    \/ ShuffleSwap
    \/ ShuffleSwapOutOfBounds
    \/ ShuffleSwapFault

SpecShuffle == InitShuffle /\ [][NextShuffle]_vars

(***************************************************************************)
(* The game played straight through: digit keys while the game awaits      *)
(* input, the new-round key once a round is over, and the new-game key.    *)
(* digitEvents counts the digit keys since the last new game.              *)
(***************************************************************************)

\* A digit key while the game awaits input.
PlayDigit ==
    /\ state = GS_INPUT
    /\ \E key \in DigitChars :
          /\ loop(key)
          /\ typed' = Append(typed, key)
    /\ event' = "DigitKey"
    /\ submitted' = IF inputCount + 1 = SECRET_LENGTH THEN submitted + 1 ELSE submitted
    /\ digitEvents' = digitEvents + 1
    /\ UNCHANGED call

\* The new-round key once the round is over.
PlayNewRound ==
    /\ state = GS_ROUNDOVER
    /\ loop(BUTTON_NEWROUND)
    /\ event' = "NewRoundKey"
    /\ typed' = <<>>
    /\ UNCHANGED <<submitted, digitEvents, call>>

\* The new-game key.
PlayNewGame ==
    /\ loop(BUTTON_NEWGAME)
    /\ event' = "NewGameKey"
    /\ submitted' = 0
    /\ typed' = <<>>
    /\ digitEvents' = 0
    /\ UNCHANGED call

NextPlay ==
    \/ PlayDigit
    \/ PlayNewRound
    \/ PlayNewGame

SpecPlay == Init /\ [][NextPlay]_vars

(***************************************************************************)
(* Properties.                                                             *)
(***************************************************************************)

\* Every hint is HINT_CORRECT.
AllCorrect(h) == \A i \in Idx : h[i] = HINT_CORRECT

\* The guess equals the secret at every position.
GuessIsSecret == \A i \in Idx : input[i] = secret[i]

\* The reference score of guess position i.
RefHint(inp, sec, i) ==
    IF inp[i] = sec[i] THEN HINT_CORRECT
    ELSE IF \E j \in Idx \ {i} : inp[i] = sec[j] THEN HINT_MISPLACED
         ELSE HINT_WRONG

\* The pools and secrets one generateSecret(false) can produce from pool p.
IsFreshSecret(p, s2, p2) == <<s2, p2>> \in generateSecret(FALSE, p)

\* C1: once a completed guess is evaluated, the hints are exactly the
\* reference scoring of the current guess against the current secret:
\* CORRECT iff the digit is in place, else MISPLACED iff the digit occurs at
\* another position of the secret, else WRONG.
C1_ReferenceScoring ==
    state # GS_INPUT => \A i \in Idx : hints[i] = RefHint(input, secret, i)

\* C1 witness: a guess that swaps two digits of the secret got MISPLACED at
\* both positions.
C1_Witness ==
    /\ state # GS_INPUT
    /\ \E i, j \in Idx :
          /\ i # j
          /\ secret[i] # secret[j]
          /\ input[i] = secret[j] /\ input[j] = secret[i]
          /\ hints[i] = HINT_MISPLACED /\ hints[j] = HINT_MISPLACED

\* C2: the digit key that brings the guess to SECRET_LENGTH evaluates it in
\* the same event and leaves GS_INPUT: GS_GAMEOVER iff all hints are CORRECT
\* or the try count has reached TRIES_MAX, GS_ROUNDOVER otherwise.
C2_CompletingDigitEvaluates ==
    [][(event' = "DigitKey" /\ inputCount = SECRET_LENGTH - 1) =>
          /\ inputCount' = SECRET_LENGTH
          /\ tries' = tries + 1
          /\ \A i \in Idx : hints'[i] = RefHint(input', secret, i)
          /\ state' \in {GS_GAMEOVER, GS_ROUNDOVER}
          /\ state' = GS_GAMEOVER <=> (AllCorrect(hints') \/ tries' = TRIES_MAX)]_vars

\* C2 witness: a completing digit ended the game on the last try, unsolved.
C2_Witness ==
    /\ event = "DigitKey"
    /\ state = GS_GAMEOVER
    /\ tries = TRIES_MAX
    /\ ~AllCorrect(hints)

\* C3: the try count stays within 0 .. TRIES_MAX.
C3_TriesInRange == tries >= 0 /\ tries <= TRIES_MAX

\* C3 witness: the try count reached TRIES_MAX.
C3_Witness == tries = TRIES_MAX /\ state = GS_GAMEOVER

\* C4: isSolved() is true iff every hint is CORRECT; after an evaluation that
\* is the case iff the guess equals the secret at every position, and the win
\* LED is lit iff that is the case.
C4_SolvedIffGuessIsSecret ==
    /\ \A h \in [Idx -> {HINT_WRONG, HINT_MISPLACED, HINT_CORRECT}] :
          isSolved(h) <=> AllCorrect(h)
    /\ state # GS_INPUT => (isSolved(hints) <=> GuessIsSecret)
    /\ ledWin = HIGH <=> (state # GS_INPUT /\ GuessIsSecret)

\* C4 witness: a secret of one repeated digit was guessed and won.
C4_Witness ==
    /\ state = GS_GAMEOVER
    /\ ledWin = HIGH
    /\ \A i \in Idx : secret[i] = secret[0] /\ input[i] = secret[i]

\* C5: a game that ended with the guess equal to the secret is won, never
\* lost, also on the last try; the lose LED is lit only with the try count at
\* TRIES_MAX or above and the guess not solved.
C5_WinBeforeLoss ==
    /\ (state = GS_GAMEOVER /\ GuessIsSecret) => (ledWin = HIGH /\ ledLose = LOW)
    /\ ledLose = HIGH => (state = GS_GAMEOVER /\ tries >= TRIES_MAX /\ ~GuessIsSecret)

\* C5 witness: the secret was guessed on the last try and the game is won.
C5_Witness ==
    /\ state = GS_GAMEOVER
    /\ tries = TRIES_MAX
    /\ GuessIsSecret
    /\ ledWin = HIGH
    /\ ledLose = LOW

\* C6: the k-th completed guess since the last new game, when it is not the
\* secret, gives GS_ROUNDOVER for k <= TRIES_MAX - 1 and GS_GAMEOVER with the
\* lose LED for k = TRIES_MAX.
C6_LossBoundary ==
    [][(submitted' = submitted + 1 /\ ~(\A i \in Idx : input'[i] = secret'[i])) =>
          /\ submitted' <= TRIES_MAX - 1 =>
                (state' = GS_ROUNDOVER /\ ledWin' = LOW /\ ledLose' = LOW)
          /\ submitted' = TRIES_MAX =>
                (state' = GS_GAMEOVER /\ ledLose' = HIGH /\ ledWin' = LOW)]_vars

\* C6 witness: the TRIES_MAX-th guess of a game was wrong and the game is lost.
C6_Witness ==
    /\ event = "DigitKey"
    /\ submitted = TRIES_MAX
    /\ state = GS_GAMEOVER
    /\ ledLose = HIGH

\* C7: the new-game key leaves try count 0, guess length 0 and GS_INPUT,
\* whatever the state before.
C7_NewGameResets ==
    [][event' = "NewGameKey" =>
          (tries' = 0 /\ inputCount' = 0 /\ state' = GS_INPUT)]_vars

\* C7 witness: a new game was started after guesses had been made.
C7_Witness ==
    /\ event = "NewGameKey"
    /\ tries = 0 /\ inputCount = 0 /\ state = GS_INPUT
    /\ hints[0] # 0

\* C8: the new-round key in GS_INPUT or GS_ROUNDOVER gives GS_INPUT with guess
\* length 0 and leaves the secret, the try count and the pool unchanged.
C8_NewRoundKeepsGame ==
    [][(event' = "NewRoundKey" /\ state \in {GS_INPUT, GS_ROUNDOVER}) =>
          /\ state' = GS_INPUT
          /\ inputCount' = 0
          /\ UNCHANGED <<secret, tries, randomDigitPool>>]_vars

\* C8 witness: a new round was started after at least one try.
C8_Witness ==
    /\ event = "NewRoundKey"
    /\ state = GS_INPUT
    /\ inputCount = 0
    /\ tries >= 1

\* C9: in GS_GAMEOVER the new-round key does what the new-game key does: a
\* step is a new-round step iff it is a new-game step, and it regenerates the
\* secret from the pool, resets the try count and the guess and gives GS_INPUT.
C9_NewRoundAfterGameOver ==
    [][state = GS_GAMEOVER =>
          /\ loop(BUTTON_NEWROUND) <=> loop(BUTTON_NEWGAME)
          /\ event' = "NewRoundKeyGameOver" =>
                /\ IsFreshSecret(randomDigitPool, secret', randomDigitPool')
                /\ tries' = 0
                /\ inputCount' = 0
                /\ state' = GS_INPUT]_vars

\* C9 witness: a game was restarted with the new-round key.
C9_Witness ==
    /\ event = "NewRoundKeyGameOver"
    /\ state = GS_INPUT
    /\ tries = 0

\* C10: a digit key in GS_ROUNDOVER or GS_GAMEOVER changes nothing, and
\* GS_GAMEOVER is left only by the new-round or the new-game key.
C10_LateDigitIgnored ==
    [][/\ event' = "DigitKeyLate" => UNCHANGED gameVars
       /\ (state = GS_GAMEOVER /\ state' # GS_GAMEOVER) =>
             event' \in {"NewRoundKeyGameOver", "NewGameKey"}]_vars

\* C10 witness: a digit key was pressed after the game was over.
C10_Witness ==
    /\ event = "DigitKeyLate"
    /\ state = GS_GAMEOVER

\* C11: a key of the unused column and a poll without a key leave every field
\* of the session unchanged, in every state.
C11_OtherKeysIgnored ==
    [][event' \in {"OtherKey", "NoKey"} => UNCHANGED gameVars]_vars

\* C11 witness: a key of the unused column was pressed in the middle of a guess.
C11_Witness ==
    /\ event = "OtherKey"
    /\ state = GS_INPUT
    /\ inputCount >= 1

DistinctSecrets ==
    {s \in [Idx -> DigitChars] : \A i, j \in Idx : i # j => s[i] # s[j]}

\* The arrangements of the elements of the array p.
PermutationsOf(p) ==
    {q \in [DOMAIN p -> {p[k] : k \in DOMAIN p}] :
        \A k \in DOMAIN p : \E m \in DOMAIN p : q[m] = p[k]}

\* C13: the secret of the next game is an independent draw: whatever the
\* current secret and pool, every duplicate-free secret can be generated next.
C13_IndependentDraw ==
    \A s \in DistinctSecrets :
        \E g \in generateSecret(FALSE, randomDigitPool) : g[1] = s

\* C14: for every permutation of the pool there are random draws for which
\* shuffleSort produces it.
C14_EveryPermutation ==
    \A q \in PermutationsOf(randomDigitPool) :
        \E r \in DrawSeqs(DIGIT_COUNT) :
            shuffleSort(randomDigitPool, DIGIT_COUNT, r) = q

\* C17: the try count grows by exactly 1 on each digit that completes a guess,
\* stays on every other digit, and its only other change is the reset to 0
\* by a new game.
C17_TriesCountGuesses ==
    [][/\ (event' = "DigitKey" /\ inputCount + 1 = SECRET_LENGTH) => tries' = tries + 1
       /\ (event' = "DigitKey" /\ inputCount + 1 # SECRET_LENGTH) => tries' = tries
       /\ event' = "DigitKeyLate" => tries' = tries
       /\ tries' < tries =>
             (event' \in {"NewGameKey", "NewRoundKeyGameOver"} /\ tries' = 0)
       /\ tries' > tries =>
             (event' = "DigitKey" /\ inputCount + 1 = SECRET_LENGTH)]_vars

\* C17 witness: two guesses of one game were counted, with a new round between.
C17_Witness ==
    /\ event = "DigitKey"
    /\ tries = 2
    /\ submitted = 2
    /\ inputCount = SECRET_LENGTH

\* C18: the secret changes only on the new-game key and on the new-round key
\* in GS_GAMEOVER; digits, new rounds during a game and ignored keys keep it.
C18_SecretImmutableInGame ==
    [][/\ secret' # secret => event' \in {"NewGameKey", "NewRoundKeyGameOver"}
       /\ event' \in {"DigitKey", "DigitKeyLate", "NewRoundKey", "OtherKey", "NoKey"} =>
             secret' = secret]_vars

\* C18 witness: a guess was evaluated and a new round begun with the secret
\* still the one read off the pool.
C18_Witness ==
    /\ event = "NewRoundKey"
    /\ tries >= 1
    /\ hints[0] # 0
    /\ secret = SecretOfPool(randomDigitPool)

C20_MisplacedNotLimited ==
    event = "checkInput" =>
        \A d \in DigitChars :
            (\E j \in DOMAIN secret : secret[j] = d) =>
                {i \in DOMAIN input : input[i] = d /\ hints[i] = HINT_MISPLACED}
                    = {i \in DOMAIN input : input[i] = d /\ secret[i] # d}

\* C20 witness: a digit that occurs once in the secret is CORRECT at one guess
\* position and MISPLACED at two others.
C20_Witness ==
    /\ event = "checkInput"
    /\ \E d \in DigitChars :
          /\ Cardinality({j \in DOMAIN secret : secret[j] = d}) = 1
          /\ Cardinality({i \in DOMAIN input : input[i] = d /\ hints[i] = HINT_MISPLACED}) >= 2
          /\ \E i \in DOMAIN input : input[i] = d /\ hints[i] = HINT_CORRECT

\* C16: with SECRET_LENGTH greater than DIGIT_COUNT and duplicates disallowed,
\* initialization reports a configuration error and starts no game: setup()
\* never returns with the session awaiting input on a secret.
C16_InvalidConfigurationDetected ==
    Cardinality(DOMAIN secret) > Cardinality(DOMAIN randomDigitPool) =>
        ~(event = "setup" /\ state = GS_INPUT)

\* C15: shuffleSort only permutes its input: for every array of pairwise
\* distinct elements and every sequence of draws the call completes, and on
\* return the array holds exactly the elements it was given.
C15_ShuffleOnlyPermutes ==
    /\ call.pc # "crashed"
    /\ call.pc = "done" => randomDigitPool \in PermutationsOf(call.orig)

\* C21: the shuffle loop runs its body for i = n-1 down to 1 only: no step of
\* shuffleSort is executed with i = 0.
C21_LoopStopsAtOne ==
    (call.build = "ino" /\ call.pc \in {"draw", "swap"}) =>
        call.i \in 1 .. (call.n - 1)

\* C22: in every step of shuffleSort the swap index z satisfies 1 <= z <= i
\* for the current loop index i.
C22_SwapIndexInRange ==
    (call.build = "ino" /\ call.pc = "swap") =>
        (1 <= call.z /\ call.z <= call.i)

\* C23: every bound the generator hands to the entropy source is positive:
\* no draw asks for a random integer below 0.
C23_PositiveBound ==
    call.pc = "draw" => \A n \in RandomRequests(call) : n > 0

\* C25: for every array length n and every sequence of draws, the indices i
\* and z that shuffleSort reads and writes lie within 0 .. n-1.
C25_IndicesInBounds ==
    (call.build = "ino" /\ call.pc = "swap") =>
        (call.i \in 0 .. (call.n - 1) /\ call.z \in 0 .. (call.n - 1))

\* C24: the digit pool, shuffled in place and never re-initialised, is in
\* every reachable state an arrangement of the DIGIT_COUNT distinct digits of
\* the alphabet.
C24_PoolIsPermutation ==
    /\ randomDigitPool \in PermutationsOf(InitialPool)
    /\ \A i, j \in DOMAIN randomDigitPool : i # j => randomDigitPool[i] # randomDigitPool[j]
    /\ {randomDigitPool[i] : i \in DOMAIN randomDigitPool} = DigitChars

\* C24 witness: a later game has begun, after a guess was evaluated, and the
\* pool is no longer in its initial order.
C24_Witness ==
    /\ event \in {"NewGameKey", "NewRoundKeyGameOver"}
    /\ hints[0] # 0
    /\ randomDigitPool # InitialPool
    /\ {randomDigitPool[i] : i \in DOMAIN randomDigitPool} = DigitChars

\* C26: 0 <= inputCount <= SECRET_LENGTH always, and inputCount < SECRET_LENGTH
\* whenever the state is GS_INPUT, so the write input[inputCount] of a digit
\* event is inside the buffer.
C26_InputCountInRange ==
    /\ inputCount \in 0 .. SECRET_LENGTH
    /\ state = GS_INPUT => inputCount \in DOMAIN input /\ inputCount < SECRET_LENGTH

\* C26 witness: a digit event has filled the last position of the buffer.
C26_Witness ==
    /\ event = "DigitKey"
    /\ inputCount = SECRET_LENGTH
    /\ state # GS_INPUT
    /\ input[SECRET_LENGTH - 1] \in DigitChars

\* C27: GS_ROUNDOVER implies a full guess, 1 <= tries < TRIES_MAX and hints
\* not all CORRECT; GS_GAMEOVER implies a full guess and hints all CORRECT or
\* tries = TRIES_MAX; GS_INPUT implies tries < TRIES_MAX.
C27_StateDataConsistent ==
    /\ state = GS_ROUNDOVER =>
          /\ inputCount = SECRET_LENGTH
          /\ 1 <= tries /\ tries < TRIES_MAX
          /\ ~AllCorrect(hints)
    /\ state = GS_GAMEOVER =>
          /\ inputCount = SECRET_LENGTH
          /\ AllCorrect(hints) \/ tries = TRIES_MAX
    /\ state = GS_INPUT => tries < TRIES_MAX

\* C27 witness: the game was lost on the last try, with the guess wrong.
C27_Witness ==
    /\ state = GS_GAMEOVER
    /\ tries = TRIES_MAX
    /\ ~AllCorrect(hints)
    /\ inputCount = SECRET_LENGTH

\* C28: shuffleSort leaves at index 1 the element that was at index 0 before
\* the call, whatever the draws: the second digit of the first secret is '0',
\* and the second digit of every later secret is the first digit of the
\* secret before it.
C28_SecondDigitIsOldFirst ==
    /\ [](event = "setup" => (randomDigitPool[1] = CHAR_0 /\ secret[1] = CHAR_0))
    /\ [][event' \in {"NewGameKey", "NewRoundKeyGameOver"} =>
            /\ randomDigitPool'[1] = randomDigitPool[0]
            /\ secret'[1] = secret[0]]_vars

\* C28 witness: a later game whose secret has a second digit other than '0',
\* the first digit of the pool it was drawn from.
C28_Witness ==
    /\ event \in {"NewGameKey", "NewRoundKeyGameOver"}
    /\ hints[0] # 0
    /\ secret[1] # CHAR_0
    /\ secret[1] = randomDigitPool[1]

\* C29: every evaluation scores only digits typed in the current round: when
\* a digit event has run checkInput(), the SECRET_LENGTH positions of the
\* guess buffer hold the digits accepted since the last reset, in key-press
\* order, and the hints are those of that guess.
C29_ScoresCurrentRound ==
    (event = "DigitKey" /\ state # GS_INPUT) =>
        /\ Len(typed) = SECRET_LENGTH
        /\ \A i \in Idx : input[i] = typed[i + 1]
        /\ hints = checkInput([i \in Idx |-> typed[i + 1]], secret)

\* C29 witness: a guess of a later round has been evaluated, the buffer still
\* holding the earlier guess when the round began.
C29_Witness ==
    /\ event = "DigitKey"
    /\ state = GS_ROUNDOVER
    /\ tries >= 2
    /\ Len(typed) = SECRET_LENGTH
    /\ \A i \in Idx : input[i] = typed[i + 1]

\* C30: played straight through, a game is over after at most
\* TRIES_MAX * SECRET_LENGTH digit events: every digit event counts towards a
\* guess, the count never exceeds that product, at that count the state is
\* GS_GAMEOVER, and no game evaluates more than TRIES_MAX guesses.
C30_GameEnds ==
    /\ digitEvents <= TRIES_MAX * SECRET_LENGTH
    /\ digitEvents = TRIES_MAX * SECRET_LENGTH => state = GS_GAMEOVER
    /\ submitted <= TRIES_MAX
    /\ digitEvents = submitted * SECRET_LENGTH + (IF state = GS_INPUT THEN inputCount ELSE 0)

\* C30 witness: the game is lost on the last digit the limit allows.
C30_Witness ==
    /\ digitEvents = TRIES_MAX * SECRET_LENGTH
    /\ submitted = TRIES_MAX
    /\ state = GS_GAMEOVER
    /\ ledLose = HIGH

====
